---- MODULE Spec2Model ----
(***************************************************************************)
(* A model of benchmark_code/cut.py, the "very simplistic version of cut". *)
(* Text is modelled as a sequence of one-character strings.  The state is  *)
(* the parsed command line, the contents of the named files and of         *)
(* standard input, the position of the fileinput cursor, the locals of     *)
(* main() and what has been written to standard output.                    *)
(***************************************************************************)
EXTENDS Integers, Sequences, FiniteSets, TLC

VARIABLES
    args_fields,     \* args.fields: the 1-based positions given to -f
    args_files,      \* args.files: the named files, in command-line order
    stdin,           \* what standard input holds
    field_indicies,  \* main's list of 0-based indices
    pc,              \* where main() is: "args", "next", "split", "print", "done"
    fileno,          \* the input source fileinput reads, 0 before the first
    pos,             \* the read offset in that source
    line,            \* main's loop variable
    fields,          \* main's list of the line's fields
    stdout,          \* the characters written to standard output
    fault            \* the exception that ended the process, or "none"

vars == <<args_fields, args_files, stdin, field_indicies, pc, fileno, pos,
          line, fields, stdout, fault>>

----------------------------------------------------------------------------
(* Bounds of the model. *)

\* the size of the input: one for each named file and one for each character
MaxInput == 4
\* the largest number of positions given to -f
MaxArgs == 2
\* the positions given to -f range over -MaxPos .. MaxPos
MaxPos == 2

TAB == "\t"
NL == "\n"
Alphabet == {"a", TAB, NL}

\* The positions given to -f: argparse's type=int accepts any integer.
Positions == (0 - MaxPos) .. MaxPos

\* Text of exactly n characters, and of at most n characters.
TextLen(n) == [1..n -> Alphabet]

Text(n) == UNION {TextLen(k) : k \in 0..n}

\* A named file: it can be opened for reading or it cannot.
Readable(data) == [exists |-> TRUE, data |-> data]

Unreadable == [exists |-> FALSE, data |-> <<>>]

\* The lists of files of a size within budget.
RECURSIVE FileLists(_)
FileLists(budget) ==
    IF budget <= 0 THEN {<<>>}
    ELSE {<<>>}
         \cup {<<Unreadable>> \o rest : rest \in FileLists(budget - 1)}
         \cup UNION {{<<Readable(d)>> \o rest :
                          rest \in FileLists(budget - 1 - k), d \in TextLen(k)} :
                     k \in 0..(budget - 1)}

FieldLists == UNION {[1..k -> Positions] : k \in 1..MaxArgs}

----------------------------------------------------------------------------
(* The string and list operations main() uses. *)

\* A plausible fault of rstrip: s.rstrip(), which strips trailing tabs too.
RECURSIVE rstripWhitespace(_)
rstripWhitespace(s) ==
    IF s # <<>> /\ s[Len(s)] \in {NL, TAB}
    THEN rstripWhitespace(SubSeq(s, 1, Len(s) - 1))
    ELSE s

\* s.rstrip('\n'): s without its trailing newlines
RECURSIVE rstrip(_)
rstrip(s) ==
    IF s # <<>> /\ s[Len(s)] = NL THEN rstrip(SubSeq(s, 1, Len(s) - 1)) ELSE s

\* A plausible fault of split: s.split(), which drops the empty pieces.
RECURSIVE splitDropEmpty(_, _)
splitDropEmpty(s, sep) ==
    IF s = <<>> THEN <<>>
    ELSE IF \A i \in 1..Len(s) : s[i] # sep THEN <<s>>
    ELSE LET k == CHOOSE i \in 1..Len(s) :
                      s[i] = sep /\ \A j \in 1..(i - 1) : s[j] # sep
         IN (IF k = 1 THEN <<>> ELSE <<SubSeq(s, 1, k - 1)>>)
                \o splitDropEmpty(SubSeq(s, k + 1, Len(s)), sep)

\* s.split(sep): the pieces of s between the occurrences of sep
RECURSIVE split(_, _)
split(s, sep) ==
    IF \A i \in 1..Len(s) : s[i] # sep THEN <<s>>
    ELSE LET k == CHOOSE i \in 1..Len(s) :
                      s[i] = sep /\ \A j \in 1..(i - 1) : s[j] # sep
         IN <<SubSeq(s, 1, k - 1)>> \o split(SubSeq(s, k + 1, Len(s)), sep)

\* sep.join(xs)
RECURSIVE join(_, _)
join(sep, xs) ==
    IF xs = <<>> THEN <<>>
    ELSE IF Len(xs) = 1 THEN xs[1]
    ELSE xs[1] \o <<sep>> \o join(sep, Tail(xs))

\* A plausible fault of the lookup: negative indices rejected.
IndexOKNonNegative(xs, x) == 0 <= x /\ x < Len(xs)

\* Whether xs[x] is defined for a Python list xs: an index from -len to len-1.
IndexOK(xs, x) == (0 - Len(xs)) <= x /\ x < Len(xs)

\* xs[x] for a Python list xs: a negative index counts from the end.
getitem(xs, x) == IF x >= 0 THEN xs[x + 1] ELSE xs[Len(xs) + x + 1]

\* A plausible fault of line 15: the positions used as indices unshifted.
IndicesUnshifted(fs) == fs

\* [x - 1 for x in args.fields]
Indices(fs) == [i \in 1..Len(fs) |-> fs[i] - 1]

\* [fields[x] for x in field_indicies], when no lookup faults
Selected(fs, idx) == [i \in 1..Len(idx) |-> getitem(fs, idx[i])]

\* A plausible fault of the line iteration: the rest of the source taken as
\* one line.
readlineWhole(data, p) == SubSeq(data, p + 1, Len(data))

\* file.readline() at offset p: up to and including the next newline, or to
\* the end of the data.
readline(data, p) ==
    LET ends == {i \in (p + 1)..Len(data) : data[i] = NL}
        stop == IF ends = {} THEN Len(data)
                ELSE CHOOSE i \in ends : \A j \in ends : i <= j
    IN SubSeq(data, p + 1, stop)

\* The input sources fileinput iterates: the named files, or standard input
\* when no file is named.  (A file named "-" stands for standard input too;
\* the model names files by their content and leaves that spelling out.)
Sources == IF args_files = <<>> THEN <<Readable(stdin)>> ELSE args_files

\* A plausible fault of the iteration: only the first source is read.
SeekFirstOnly(f, p) ==
    IF f >= 1 /\ p < Len(Sources[f].data) THEN [at |-> "line", fileno |-> f, pos |-> p]
    ELSE IF f >= 1 THEN [at |-> "end", fileno |-> f, pos |-> p]
    ELSE IF ~Sources[1].exists THEN [at |-> "ioerror", fileno |-> f, pos |-> p]
    ELSE IF Sources[1].data # <<>> THEN [at |-> "line", fileno |-> 1, pos |-> 0]
    ELSE [at |-> "end", fileno |-> 1, pos |-> 0]

\* fileinput's search for the next line from source f at offset p: it stays
\* in the source while data is left, and otherwise goes on to the next
\* source, which it must open; after the last source the iteration stops.
RECURSIVE Seek(_, _)
Seek(f, p) ==
    IF f >= 1 /\ p < Len(Sources[f].data) THEN [at |-> "line", fileno |-> f, pos |-> p]
    ELSE IF f = Len(Sources) THEN [at |-> "end", fileno |-> f, pos |-> p]
    ELSE IF ~Sources[f + 1].exists THEN [at |-> "ioerror", fileno |-> f, pos |-> p]
    ELSE Seek(f + 1, 0)

----------------------------------------------------------------------------
(* The state machine. *)

Init ==
    /\ args_fields \in FieldLists
    /\ args_files \in FileLists(MaxInput)
    /\ stdin \in (IF args_files = <<>> THEN Text(MaxInput) ELSE {<<>>})
    /\ field_indicies = <<>>
    /\ pc = "args"
    /\ fileno = 0
    /\ pos = 0
    /\ line = <<>>
    /\ fields = <<>>
    /\ stdout = <<>>
    /\ fault = "none"

\* line 15
ParseArgs ==
    /\ pc = "args"
    /\ field_indicies' = Indices(args_fields)
    /\ pc' = "next"
    /\ UNCHANGED <<args_fields, args_files, stdin, fileno, pos, line, fields,
                   stdout, fault>>

\* line 17: fileinput yields the next line
NextLine ==
    /\ pc = "next"
    /\ Seek(fileno, pos).at = "line"
    /\ LET s == Seek(fileno, pos)
       IN /\ line' = readline(Sources[s.fileno].data, s.pos)
          /\ fileno' = s.fileno
          /\ pos' = s.pos + Len(line')
    /\ pc' = "split"
    /\ UNCHANGED <<args_fields, args_files, stdin, field_indicies, fields,
                   stdout, fault>>

\* A plausible fault of line 17: an unreadable source is skipped.
OpenFailSkipped ==
    /\ pc = "next"
    /\ Seek(fileno, pos).at = "ioerror"
    /\ fileno' = Seek(fileno, pos).fileno + 1
    /\ pos' = 0
    /\ UNCHANGED <<args_fields, args_files, stdin, field_indicies, pc, line,
                   fields, stdout, fault>>

\* line 17: the next source cannot be opened; the IOError is not caught
OpenFail ==
    /\ pc = "next"
    /\ Seek(fileno, pos).at = "ioerror"
    /\ fileno' = Seek(fileno, pos).fileno
    /\ pos' = Seek(fileno, pos).pos
    /\ fault' = "IOError"
    /\ pc' = "done"
    /\ UNCHANGED <<args_fields, args_files, stdin, field_indicies, line,
                   fields, stdout>>

\* A plausible fault of line 17: the end of the iteration escapes the loop as
\* an exception.
StopIterationRaised ==
    /\ pc = "next"
    /\ Seek(fileno, pos).at = "end"
    /\ fileno' = Seek(fileno, pos).fileno
    /\ pos' = Seek(fileno, pos).pos
    /\ fault' = "StopIteration"
    /\ pc' = "done"
    /\ UNCHANGED <<args_fields, args_files, stdin, field_indicies, line,
                   fields, stdout>>

\* line 17: no source is left; the loop ends and main() returns
StopIteration ==
    /\ pc = "next"
    /\ Seek(fileno, pos).at = "end"
    /\ fileno' = Seek(fileno, pos).fileno
    /\ pos' = Seek(fileno, pos).pos
    /\ pc' = "done"
    /\ UNCHANGED <<args_fields, args_files, stdin, field_indicies, line,
                   fields, stdout, fault>>

\* line 18
SplitLine ==
    /\ pc = "split"
    /\ fields' = split(rstrip(line), TAB)
    /\ pc' = "print"
    /\ UNCHANGED <<args_fields, args_files, stdin, field_indicies, fileno, pos,
                   line, stdout, fault>>

\* A plausible fault of line 19: the output line is held back, not written.
PrintLineHeld ==
    /\ pc = "print"
    /\ \A i \in 1..Len(field_indicies) : IndexOK(fields, field_indicies[i])
    /\ pc' = "next"
    /\ UNCHANGED <<args_fields, args_files, stdin, field_indicies, fileno, pos,
                   line, fields, stdout, fault>>

\* line 19: every lookup succeeds; print writes the joined fields and a newline
PrintLine ==
    /\ pc = "print"
    /\ \A i \in 1..Len(field_indicies) : IndexOK(fields, field_indicies[i])
    /\ stdout' = stdout \o join(TAB, Selected(fields, field_indicies)) \o <<NL>>
    /\ pc' = "next"
    /\ UNCHANGED <<args_fields, args_files, stdin, field_indicies, fileno, pos,
                   line, fields, fault>>

\* A plausible fault of line 19: the faulting line is skipped and the loop
\* goes on.
IndexErrorSkipped ==
    /\ pc = "print"
    /\ \E i \in 1..Len(field_indicies) : ~IndexOK(fields, field_indicies[i])
    /\ pc' = "next"
    /\ UNCHANGED <<args_fields, args_files, stdin, field_indicies, fileno, pos,
                   line, fields, stdout, fault>>

\* line 19: a lookup is out of range; the IndexError is raised before print
\* is called and is not caught
IndexError ==
    /\ pc = "print"
    /\ \E i \in 1..Len(field_indicies) : ~IndexOK(fields, field_indicies[i])
    /\ fault' = "IndexError"
    /\ pc' = "done"
    /\ UNCHANGED <<args_fields, args_files, stdin, field_indicies, fileno, pos,
                   line, fields, stdout>>

Next ==
    \/ ParseArgs
    \/ NextLine
    \/ OpenFail
    \/ StopIteration
    \/ SplitLine
    \/ PrintLine
    \/ IndexError

Spec == Init /\ [][Next]_vars

\* main() runs on a single thread that is never suspended: a step that can be
\* taken is taken.
FairSpec == Spec /\ WF_vars(Next)

\* The exit status of the process: 0 when main() returns, 1 when an exception
\* propagates out of it.
ExitCode == IF fault = "none" THEN 0 ELSE 1

----------------------------------------------------------------------------
(* main() as a function of its input: what it writes and how it ends. *)

\* The lines a source yields, each with its terminator; the last one has none
\* when the data does not end in a newline.
RECURSIVE Lines(_)
Lines(data) ==
    IF data = <<>> THEN <<>>
    ELSE LET ends == {i \in 1..Len(data) : data[i] = NL}
             stop == IF ends = {} THEN Len(data)
                     ELSE CHOOSE i \in ends : \A j \in ends : i <= j
         IN <<SubSeq(data, 1, stop)>> \o Lines(SubSeq(data, stop + 1, Len(data)))

\* lines 18-19 for one line: whether a lookup faults, and what is printed
Faults(l, idx) ==
    \E i \in 1..Len(idx) : ~IndexOK(split(rstrip(l), TAB), idx[i])

Transform(l, idx) == join(TAB, Selected(split(rstrip(l), TAB), idx))

\* lines 17-19 over a list of lines: the loop stops at the first fault
RECURSIVE RunLines(_, _)
RunLines(ls, idx) ==
    IF ls = <<>> THEN [stdout |-> <<>>, fault |-> "none"]
    ELSE IF Faults(Head(ls), idx) THEN [stdout |-> <<>>, fault |-> "IndexError"]
    ELSE LET r == RunLines(Tail(ls), idx)
         IN [stdout |-> Transform(Head(ls), idx) \o <<NL>> \o r.stdout,
             fault |-> r.fault]

\* main() over one readable file holding data, with -f fs
RunOne(data, fs) == RunLines(Lines(data), Indices(fs))

----------------------------------------------------------------------------
(* The vocabulary of the claims: input lines, columns and output lines,    *)
(* defined on the text itself and not through the operations of main().    *)

\* A line without its terminator.
Content(l) ==
    IF l # <<>> /\ l[Len(l)] = NL THEN SubSeq(l, 1, Len(l) - 1) ELSE l

\* The tab-separated columns of a line: one more than it has tabs.
TabsAt(s) == {i \in 1..Len(s) : s[i] = TAB}

NumFields(l) == Cardinality(TabsAt(Content(l))) + 1

\* The column at the 1-based position p of line l, for p in 1..NumFields(l):
\* the text between the (p-1)-th and the p-th tab.
Column(l, p) ==
    LET s == Content(l)
        marks == {0} \cup TabsAt(s) \cup {Len(s) + 1}
        lo == CHOOSE m \in marks : Cardinality({c \in marks : c < m}) = p - 1
        hi == CHOOSE m \in marks : Cardinality({c \in marks : c < m}) = p
    IN SubSeq(s, lo + 1, hi - 1)

\* The tab-join of a list of columns.
RECURSIVE TabJoin(_)
TabJoin(cols) ==
    IF Len(cols) = 0 THEN <<>>
    ELSE IF Len(cols) = 1 THEN cols[1]
    ELSE TabJoin(SubSeq(cols, 1, Len(cols) - 1)) \o <<TAB>> \o cols[Len(cols)]

\* The lines of a list of files up to its first unreadable file: an
\* unreadable file holds no line and ends the input.
RECURSIVE LinesOf(_)
LinesOf(srcs) ==
    IF srcs = <<>> \/ ~Head(srcs).exists THEN <<>>
    ELSE Lines(Head(srcs).data) \o LinesOf(Tail(srcs))

\* The input lines: the logical concatenation of the inputs.
InputLines ==
    LinesOf(IF args_files = <<>> THEN <<Readable(stdin)>> ELSE args_files)

\* The input lines the cursor has passed.
Consumed ==
    IF fileno = 0 THEN <<>>
    ELSE LinesOf(SubSeq(Sources, 1, fileno - 1))
             \o Lines(SubSeq(Sources[fileno].data, 1, pos))

\* A line is in hand: read and not yet printed.
InHand == pc \in {"split", "print"} \/ fault = "IndexError"

\* The input lines whose processing has completed.
Completed ==
    IF InHand THEN SubSeq(Consumed, 1, Len(Consumed) - 1) ELSE Consumed

\* The lines written to standard output, without their terminators.
OutputLines == [k \in 1..Len(Lines(stdout)) |-> Content(Lines(stdout)[k])]

\* The largest requested position.
MaxRequested ==
    CHOOSE m \in {args_fields[i] : i \in 1..Len(args_fields)} :
        \A i \in 1..Len(args_fields) : args_fields[i] <= m

\* Every requested position names a column of line l.
Covered(l) == \A i \in 1..Len(args_fields) : args_fields[i] \in 1..NumFields(l)

\* The columns of l at the requested positions, in the order requested.
RequestedColumns(l) ==
    [i \in 1..Len(args_fields) |-> Column(l, args_fields[i])]

----------------------------------------------------------------------------
(* C1 *)

\* C1 as stated: every input line with at least max(requested positions)
\* columns is answered by the tab-join of its columns at the requested
\* positions, in the order requested (and so is not answered by a fault).
C1_AsStated ==
    /\ \A k \in 1..Len(Completed) :
           NumFields(Completed[k]) >= MaxRequested
               => /\ Covered(Completed[k])
                  /\ k \in DOMAIN OutputLines
                  /\ OutputLines[k] = TabJoin(RequestedColumns(Completed[k]))
    /\ fault = "IndexError" => ~(NumFields(line) >= MaxRequested)

\* C1, amended: every input line on which every requested position is one of
\* 1..number of columns is answered by the tab-join of its columns at the
\* requested positions, in the order requested, a position requested twice
\* appearing twice.
C1_SelectedColumns ==
    /\ \A k \in 1..Len(Completed) :
           Covered(Completed[k])
               => /\ k \in DOMAIN OutputLines
                  /\ OutputLines[k] = TabJoin(RequestedColumns(Completed[k]))
    /\ fault = "IndexError" => ~Covered(line)

\* A line with two different columns has been answered for -f 2 2.
C1_Witness ==
    /\ args_fields = <<2, 2>>
    /\ \E k \in 1..Len(Completed) :
           /\ NumFields(Completed[k]) >= 2
           /\ Column(Completed[k], 1) # Column(Completed[k], 2)
           /\ OutputLines[k] = Column(Completed[k], 2) \o <<TAB>> \o Column(Completed[k], 2)

----------------------------------------------------------------------------
(* C2 *)

\* C2: when no line faults, the output is one line per input line, in input
\* order, the files taken in command-line order and each to its end: the
\* k-th output line is the transform of the k-th input line.
C2_OneOutputLinePerInputLine ==
    (pc = "done" /\ fault # "IndexError")
        => /\ Len(OutputLines) = Len(InputLines)
           /\ \A k \in 1..Len(InputLines) :
                  OutputLines[k] = Transform(InputLines[k], Indices(args_fields))

\* Two files of one line each have been processed to the end, and their
\* output lines differ.
C2_Witness ==
    /\ pc = "done" /\ fault = "none"
    /\ Len(args_files) = 2
    /\ Len(Lines(args_files[1].data)) = 1
    /\ Len(Lines(args_files[2].data)) = 1
    /\ Len(OutputLines) = 2
    /\ OutputLines[1] # OutputLines[2]

----------------------------------------------------------------------------
(* C3 *)

\* The two named files of a run over two readable files.
TwoFiles ==
    /\ Len(args_files) = 2
    /\ args_files[1].exists
    /\ args_files[2].exists

\* What a run over the single file holding A's content followed by B's
\* content writes, and how it ends.
RunJoined == RunOne(args_files[1].data \o args_files[2].data, args_fields)

\* C3 as stated: the run over [A, B] writes what the run over the single
\* file A followed by B writes, and ends as it ends, also when A's last line
\* has no newline.
C3_AsStated ==
    (pc = "done" /\ TwoFiles)
        => /\ stdout = RunJoined.stdout
           /\ fault = RunJoined.fault

\* A's content can be followed by B's without joining two lines: A is empty,
\* A ends in a newline, or B is empty.
CleanSeam ==
    LET A == args_files[1].data
        B == args_files[2].data
    IN A = <<>> \/ A[Len(A)] = NL \/ B = <<>>

\* C3, amended: the run over [A, B] writes what the run over the single file
\* A followed by B writes, and ends as it ends, when A is empty or ends in a
\* newline or B is empty.
C3_Concatenation ==
    (pc = "done" /\ TwoFiles /\ CleanSeam)
        => /\ stdout = RunJoined.stdout
           /\ fault = RunJoined.fault

\* A run over two files that each gave an output line has ended.
C3_Witness ==
    /\ pc = "done" /\ TwoFiles /\ CleanSeam
    /\ args_files[1].data # <<>>
    /\ args_files[2].data # <<>>
    /\ Len(OutputLines) = 2

----------------------------------------------------------------------------
(* C4 *)

\* A requested position exceeds the number of fields of line l.
Exceeds(l) == \E i \in 1..Len(args_fields) : args_fields[i] > NumFields(l)

\* A requested position is out of range on line l: with n fields, the
\* positions 1-n .. n are in range.
OutOfRange(l) ==
    \E i \in 1..Len(args_fields) :
        args_fields[i] \notin (1 - NumFields(l))..NumFields(l)

\* The first input line on which a position exceeds the number of fields,
\* and the first on which a position is out of range.
FirstExceeding ==
    CHOOSE k \in 1..Len(InputLines) :
        /\ Exceeds(InputLines[k])
        /\ \A j \in 1..(k - 1) : ~Exceeds(InputLines[j])

FirstOutOfRange ==
    CHOOSE k \in 1..Len(InputLines) :
        /\ OutOfRange(InputLines[k])
        /\ \A j \in 1..(k - 1) : ~OutOfRange(InputLines[j])

\* The process has stopped with an index fault on input line k, having
\* written the transformed lines before it and nothing else.
StoppedAt(k) ==
    /\ fault = "IndexError"
    /\ ExitCode # 0
    /\ Len(Consumed) = k
    /\ line = InputLines[k]
    /\ OutputLines = [j \in 1..(k - 1) |->
                          Transform(InputLines[j], Indices(args_fields))]
    /\ stdout = <<>> \/ stdout[Len(stdout)] = NL

\* C4 as stated: when a requested position exceeds the number of fields of
\* some input line, the process ends at the first such line with a non-zero
\* status, the output being the transformed lines before that line.
C4_AsStated ==
    (pc = "done" /\ \E k \in 1..Len(InputLines) : Exceeds(InputLines[k]))
        => StoppedAt(FirstExceeding)

\* C4, amended: when a requested position is out of range on some input line
\* (above the number n of its fields, or below 1-n), the process ends at the
\* first such line with a non-zero status, the output being the transformed
\* lines before that line.
C4_FailFast ==
    (pc = "done" /\ \E k \in 1..Len(InputLines) : OutOfRange(InputLines[k]))
        => StoppedAt(FirstOutOfRange)

\* The process has stopped on the second input line, where a position
\* exceeds the number of fields, with the first line's output written.
C4_Witness ==
    /\ pc = "done" /\ fault = "IndexError"
    /\ Len(Consumed) = 2
    /\ Exceeds(line)
    /\ Len(OutputLines) = 1

----------------------------------------------------------------------------
(* C5 *)

\* C5 as stated: positions are not validated, and a position outside
\* 1..number of fields of a line (0 and the negative ones included) faults
\* on that line: only lines that every position covers are answered.
C5_AsStated ==
    /\ pc # "args" => field_indicies = [i \in 1..Len(args_fields) |-> args_fields[i] - 1]
    /\ \A k \in 1..Len(Completed) : Covered(Completed[k])

\* The column a position selects on line l when it is in range: a position
\* below 1 counts from the end, position 0 being the last column.
PyColumn(l, p) == Column(l, IF p >= 1 THEN p ELSE NumFields(l) + p)

\* C5, amended: positions are not validated; on a line of n fields a position
\* p faults exactly when p > n or p < 1-n, and a position from 1-n to 0
\* selects a column counted from the end (position 0 the last column).
C5_PythonIndexing ==
    /\ pc # "args" => field_indicies = [i \in 1..Len(args_fields) |-> args_fields[i] - 1]
    /\ \A k \in 1..Len(Completed) :
           /\ ~OutOfRange(Completed[k])
           /\ k \in DOMAIN OutputLines
           /\ OutputLines[k] =
                  TabJoin([i \in 1..Len(args_fields) |->
                               PyColumn(Completed[k], args_fields[i])])
    /\ fault = "IndexError" => OutOfRange(line)

\* A line of two different columns has been answered for -f 0 by its last
\* column.
C5_Witness ==
    /\ args_fields = <<0>>
    /\ \E k \in 1..Len(Completed) :
           /\ NumFields(Completed[k]) = 2
           /\ Column(Completed[k], 1) # Column(Completed[k], 2)
           /\ OutputLines[k] = Column(Completed[k], 2)

----------------------------------------------------------------------------
(* C6 *)

\* The positions 1..n of a line of n fields.
AllInOrder(l) == args_fields = [i \in 1..NumFields(l) |-> i]

\* C6: a line asked for all its fields in their order is answered by its own
\* content, the line without its terminator.
C6_AllFieldsInOrder ==
    /\ \A k \in 1..Len(Completed) :
           AllInOrder(Completed[k])
               => /\ k \in DOMAIN OutputLines
                  /\ OutputLines[k] = Content(Completed[k])
    /\ fault = "IndexError" => ~AllInOrder(line)

\* A line of two fields, the second one empty, has been answered for -f 1 2.
C6_Witness ==
    /\ args_fields = <<1, 2>>
    /\ \E k \in 1..Len(Completed) :
           /\ NumFields(Completed[k]) = 2
           /\ Column(Completed[k], 1) # <<>>
           /\ Column(Completed[k], 2) = <<>>
           /\ OutputLines[k] = Content(Completed[k])

----------------------------------------------------------------------------
(* C7 *)

\* Every named file is readable.
AllReadable == \A i \in 1..Len(args_files) : args_files[i].exists

\* No requested position is out of range on any input line.
NoLineFaults == \A k \in 1..Len(InputLines) : ~OutOfRange(InputLines[k])

\* The process has ended with status 0, every input line answered.
EndedWell ==
    /\ pc = "done"
    /\ ExitCode = 0
    /\ Len(Consumed) = Len(InputLines)
    /\ Len(OutputLines) = Len(InputLines)

\* C7: when every named file is readable and no line faults, the process
\* ends with status 0 after processing all the input lines; on empty input
\* it ends with status 0 and no output.
C7_Termination == (AllReadable /\ NoLineFaults) => <>EndedWell

\* The process has ended with status 0 on an input of no line, with nothing
\* written.
C7_Witness ==
    /\ EndedWell
    /\ InputLines = <<>>
    /\ stdout = <<>>

----------------------------------------------------------------------------
(* C8 *)

\* The first named file that cannot be read.
FirstUnreadable ==
    CHOOSE u \in 1..Len(args_files) :
        /\ ~args_files[u].exists
        /\ \A j \in 1..(u - 1) : args_files[j].exists

\* C8: when a named file cannot be read and no line of the files before it
\* faults, the process ends with a non-zero status when it reaches that
\* file: the output of the lines of the files before it is written, and no
\* file after it is opened.
C8_UnreadableFile ==
    (pc = "done" /\ ~AllReadable /\ NoLineFaults)
        => /\ fault = "IOError"
           /\ ExitCode # 0
           /\ fileno < FirstUnreadable
           /\ Len(Consumed) = Len(InputLines)
           /\ OutputLines = [k \in 1..Len(InputLines) |->
                                 Transform(InputLines[k], Indices(args_fields))]

\* The process has stopped at an unreadable file that follows a file whose
\* line is written and precedes a readable file.
C8_Witness ==
    /\ pc = "done" /\ fault = "IOError"
    /\ Len(args_files) = 3
    /\ ~args_files[2].exists
    /\ args_files[3].exists
    /\ Len(OutputLines) = 1

----------------------------------------------------------------------------
(* C9 *)

\* The line in hand has been answered.
Answered == pc \in {"next", "done"} /\ fault # "IndexError"

\* An output line of one empty field for each requested position.
EmptyFields == [i \in 1..(Len(args_fields) - 1) |-> TAB]

\* C9 as stated: a blank line splits into the one-element list of the empty
\* string; index 0 yields an empty output field and any other index faults.
C9_AsStated ==
    line = <<NL>>
        => /\ pc = "print" => fields = << <<>> >>
           /\ Answered
                  => /\ \A i \in 1..Len(field_indicies) : field_indicies[i] = 0
                     /\ OutputLines[Len(OutputLines)] = EmptyFields
           /\ fault = "IndexError"
                  => \E i \in 1..Len(field_indicies) : field_indicies[i] # 0

\* C9, amended: a blank line splits into the one-element list of the empty
\* string; the indices 0 and -1 yield an empty output field and any other
\* index faults.
C9_BlankLine ==
    line = <<NL>>
        => /\ pc = "print" => fields = << <<>> >>
           /\ Answered
                  => /\ \A i \in 1..Len(field_indicies) :
                            field_indicies[i] \in {0, -1}
                     /\ OutputLines[Len(OutputLines)] = EmptyFields
           /\ fault = "IndexError"
                  => \E i \in 1..Len(field_indicies) :
                         field_indicies[i] \notin {0, -1}

\* A blank line has been answered for -f 1 1 by two empty fields.
C9_Witness ==
    /\ line = <<NL>>
    /\ Answered
    /\ field_indicies = <<0, 0>>
    /\ OutputLines[Len(OutputLines)] = <<TAB>>

----------------------------------------------------------------------------
(* C10 *)

\* The output holds one complete line for each input line whose processing
\* has completed; at most one line is in hand, the last one read.
StreamingState ==
    /\ Len(Lines(stdout)) = Len(Completed)
    /\ stdout = <<>> \/ stdout[Len(stdout)] = NL
    /\ Len(Consumed) <= Len(InputLines)
    /\ \A k \in 1..Len(Consumed) : Consumed[k] = InputLines[k]
    /\ InHand => Len(Consumed) >= 1 /\ line = Consumed[Len(Consumed)]

\* The cursor only moves forward, and only while no line is in hand; a step
\* that reads a line moves it past that line alone.
ForwardOnly ==
    /\ fileno' > fileno \/ (fileno' = fileno /\ pos' >= pos)
    /\ <<fileno', pos'>> # <<fileno, pos>> => pc = "next"
    /\ pc' = "split" => pos' = Seek(fileno, pos).pos + Len(line')

\* C10: the input is read by one forward-only cursor, a line at a time, and
\* the output line of a line is written before the next line is read: at
\* every point the output lines written are as many as the input lines whose
\* processing has completed.
C10_Streaming == []StreamingState /\ [][ForwardOnly]_vars

\* The second line is in hand and the first line's output is written.
C10_Witness ==
    /\ pc = "print"
    /\ Len(Consumed) = 2
    /\ Len(OutputLines) = 1

====
